---- MODULE Spec2Model ----
(***************************************************************************)
(* Model of question-parser.py: parse_question_file scans the lines of a   *)
(* quiz text file and assembles question records.  A line is a sequence    *)
(* of one-character strings, so that the regular expressions, strip() and  *)
(* lower() are computed character by character.  Around it are modelled    *)
(* load_questions_from_directory and main, which decode and parse the      *)
(* files of a directory and save the corpus, and load_cards_from_json of   *)
(* flashcards.py, which reads the corpus back as cards.                    *)
(***************************************************************************)
EXTENDS Integers, Sequences, FiniteSets, TLC

VARIABLES path, lines, i, questions, current, last_type, warnings, pc,
          dir, txt_files, fi, all_questions, json_file, cards, dpc

vars == <<path, lines, i, questions, current, last_type, warnings, pc,
          dir, txt_files, fi, all_questions, json_file, cards, dpc>>

\* The state outside parse_question_file: the directory, the loop over its
\* files, the corpus, the saved JSON document and the cards read from it.
outer == <<dir, txt_files, fi, all_questions, json_file, cards, dpc>>

(* ------------------------------ bounds -------------------------------- *)

\* Largest number of lines of an input file.
MaxLines == 4

\* Largest number of entries of a directory.
MaxFiles == 2

(* --------------------------- Python values ----------------------------- *)

\* Python's None; a present optional value v is the one-element tuple <<v>>.
None == <<>>

Some(v) == <<v>>

Min(S) == CHOOSE x \in S : \A y \in S : x <= y

Max(S) == CHOOSE x \in S : \A y \in S : x >= y

\* Characters matched by \d, by [a-zA-Z] and by \s / str.strip().
Digits == {"0", "1", "2", "3", "4", "5", "6", "7", "8", "9"}

LowerCase == <<"a", "b", "c", "d", "e", "f", "g", "h", "i", "j", "k", "l", "m",
               "n", "o", "p", "q", "r", "s", "t", "u", "v", "w", "x", "y", "z">>

UpperCase == <<"A", "B", "C", "D", "E", "F", "G", "H", "I", "J", "K", "L", "M",
               "N", "O", "P", "Q", "R", "S", "T", "U", "V", "W", "X", "Y", "Z">>

Letters == {LowerCase[k] : k \in 1..26} \cup {UpperCase[k] : k \in 1..26}

Whitespace == {" ", "\t"}

\* str.lower() on one character.
lower(c) ==
    IF \E k \in 1..26 : UpperCase[k] = c
    THEN LowerCase[CHOOSE k \in 1..26 : UpperCase[k] = c]
    ELSE c

\* str.strip(): drop leading and trailing whitespace.
strip(s) ==
    LET keep == {k \in 1..Len(s) : s[k] \notin Whitespace}
    IN  IF keep = {} THEN <<>> ELSE SubSeq(s, Min(keep), Max(keep))

\* What "\s*(.*)$" captures in its group from position k of s: the greedy
\* \s* eats the whitespace run, the group is the rest of the line.
Rest(s, k) ==
    LET keep == {j \in k..Len(s) : s[j] \notin Whitespace}
    IN  IF keep = {} THEN <<>> ELSE SubSeq(s, Min(keep), Len(s))

\* QUESTION_RE = ^(\d+)\.\s*(.*)$ ; None, or the groups of the match.
QUESTION_RE(s) ==
    LET nd == IF \E k \in 1..Len(s) : s[k] \notin Digits
              THEN Min({k \in 1..Len(s) : s[k] \notin Digits}) - 1
              ELSE Len(s)
    IN  IF nd >= 1 /\ Len(s) > nd /\ s[nd + 1] = "."
        THEN Some([g1 |-> SubSeq(s, 1, nd), g2 |-> Rest(s, nd + 2)])
        ELSE None

\* CHOICE_RE = ^(\*?)([a-zA-Z])\.\s*(.*)$ ; None, or the groups of the match.
CHOICE_RE(s) ==
    LET ns == IF Len(s) >= 1 /\ s[1] = "*" THEN 1 ELSE 0
    IN  IF Len(s) >= ns + 2 /\ s[ns + 1] \in Letters /\ s[ns + 2] = "."
        THEN Some([g1 |-> SubSeq(s, 1, ns), g2 |-> s[ns + 1],
                   g3 |-> Rest(s, ns + 3)])
        ELSE None

(* ------------------------------ inputs --------------------------------- *)

\* The file names parsed; Stem is Path.stem, the name without its suffix.
Paths == {<<"q", ".", "t", "x", "t">>}

Stem(name) ==
    LET dots == {k \in 2..Len(name) : name[k] = "."}
    IN  IF dots = {} THEN name ELSE SubSeq(name, 1, Max(dots) - 1)

\* The lines a file is made of.
Lines ==
    { <<"1", ".", " ", "Q">>,                  \* header
      <<"1", ".">>,                            \* header, same number, no text
      <<" ", "2", ".", "Q", " ">>,             \* header, padded, no space
      <<"a", ".", " ", "x">>,                  \* choice
      <<"*", "B", ".", " ", "y">>,             \* marked choice, upper case
      <<"*", "a", ".", " ">>,                  \* marked choice, no text
      <<" ", "a", "b", ".", " ", "x", " ">>,   \* continuation, padded
      <<" ", "\t">> }                          \* blank (whitespace only)

Files == UNION {[1..n -> Lines] : n \in 0..MaxLines}

(* ----------------------------- file bytes ------------------------------ *)

\* The characters of the model by code point; a character outside ASCII is
\* written by its code point.
Chr ==
    9 :> "\t" @@ 10 :> "\n" @@ 13 :> "\r" @@ 32 :> " " @@ 42 :> "*" @@
    46 :> "." @@ 49 :> "1" @@ 50 :> "2" @@ 66 :> "B" @@ 81 :> "Q" @@
    97 :> "a" @@ 98 :> "b" @@ 100 :> "d" @@ 109 :> "m" @@ 113 :> "q" @@
    116 :> "t" @@ 120 :> "x" @@ 121 :> "y" @@
    169 :> "U+00A9" @@ 195 :> "U+00C3" @@ 233 :> "U+00E9"

Ord(c) == CHOOSE b \in DOMAIN Chr : Chr[b] = c

\* bytes.decode("utf-8"): None when the bytes are not valid UTF-8.  One- and
\* two-byte sequences are decoded; no longer sequence is well formed over
\* the byte values of the modelled files.
RECURSIVE utf_8(_)
utf_8(b) ==
    IF b = <<>> THEN Some(<<>>)
    ELSE IF b[1] < 128
    THEN LET rest == utf_8(Tail(b))
         IN  IF rest = None THEN None ELSE Some(<<Chr[b[1]]>> \o rest[1])
    ELSE IF b[1] \in 194..223 /\ Len(b) >= 2 /\ b[2] \in 128..191
    THEN LET rest == utf_8(SubSeq(b, 3, Len(b)))
         IN  IF rest = None THEN None
             ELSE Some(<<Chr[(b[1] - 192) * 64 + (b[2] - 128)]>> \o rest[1])
    ELSE None

\* The byte values that cp1252 leaves undefined.
Cp1252Undefined == {129, 141, 143, 144, 157}

\* bytes.decode("cp1252"): None on an undefined byte; ASCII and the bytes
\* from 0xA0 up decode to the character with the same code point.
RECURSIVE cp1252(_)
cp1252(b) ==
    IF b = <<>> THEN Some(<<>>)
    ELSE IF b[1] \in Cp1252Undefined THEN None
    ELSE LET rest == cp1252(Tail(b))
         IN  IF rest = None THEN None ELSE Some(<<Chr[b[1]]>> \o rest[1])

\* try: read_text("utf-8") except UnicodeDecodeError: read_text("cp1252").
\* None when the second decoding fails as well.
read_text(b) == IF utf_8(b) # None THEN utf_8(b) ELSE cp1252(b)

\* str.splitlines() over the line boundaries \n, \r and \r\n.
RECURSIVE splitlines(_)
splitlines(t) ==
    LET brk == {k \in 1..Len(t) : t[k] \in {"\n", "\r"}}
    IN  IF t = <<>> THEN <<>>
        ELSE IF brk = {} THEN <<t>>
        ELSE LET k == Min(brk)
                 n == IF t[k] = "\r" /\ k < Len(t) /\ t[k + 1] = "\n"
                      THEN 2 ELSE 1
             IN  <<SubSeq(t, 1, k - 1)>>
                     \o splitlines(SubSeq(t, k + n, Len(t)))

\* ln.rstrip("\n")
RECURSIVE rstrip_nl(_)
rstrip_nl(s) ==
    IF s # <<>> /\ s[Len(s)] = "\n"
    THEN rstrip_nl(SubSeq(s, 1, Len(s) - 1))
    ELSE s

\* lines = [ln.rstrip("\n") for ln in text.splitlines()]
LinesOf(text) ==
    LET sl == splitlines(text)
    IN  [k \in 1..Len(sl) |-> rstrip_nl(sl[k])]

\* The bytes of a text file with the given lines, each ended by a newline.
RECURSIVE EncodeLines(_)
EncodeLines(ls) ==
    IF ls = <<>> THEN <<>>
    ELSE [k \in 1..Len(Head(ls)) |-> Ord(Head(ls)[k])] \o <<10>>
             \o EncodeLines(Tail(ls))

(* ------------------------------ machine -------------------------------- *)

\* The directory holds the one file path, and parse_question_file has just
\* read its lines.
Init ==
    /\ path \in Paths
    /\ lines \in Files
    /\ i = 1
    /\ questions = <<>>
    /\ current = None
    /\ last_type = None
    /\ warnings = <<>>
    /\ pc = "loop"
    /\ dir = Some(path :> EncodeLines(lines))
    /\ txt_files = <<path>>
    /\ fi = 1
    /\ all_questions = <<>>
    /\ json_file = None
    /\ cards = <<>>
    /\ dpc = "parsing"

\* for line in lines: stripped = line.strip()
InLoop == pc = "loop" /\ i <= Len(lines)

stripped == strip(lines[i])

\* SkipBlank that lets a blank line end the field being continued.
SkipBlankEndsField ==
    /\ pc = "loop" /\ i <= Len(lines)
    /\ strip(lines[i]) = <<>>
    /\ i' = i + 1
    /\ last_type' = None
    /\ UNCHANGED <<path, lines, questions, current, warnings, pc>>
    /\ UNCHANGED outer

\* if not stripped: continue
SkipBlank ==
    /\ InLoop
    /\ stripped = <<>>
    /\ i' = i + 1
    /\ UNCHANGED <<path, lines, questions, current, last_type, warnings, pc>>
    /\ UNCHANGED outer

\* NewRecord with the header number left out of the id.
NewRecordNoNumber(q_number, q_text) ==
    [ id             |-> Stem(path),
      source_file    |-> path,
      question       |-> q_text,
      choices        |-> <<>>,
      correct_letter |-> None,
      correct_index  |-> None ]

\* The dict built for a new question.
NewRecord(q_number, q_text) ==
    [ id             |-> Stem(path) \o <<"_">> \o q_number,
      source_file    |-> path,
      question       |-> q_text,
      choices        |-> <<>>,
      correct_letter |-> None,
      correct_index  |-> None ]

\* NewQuestion that emits the previous question only if it has choices.
NewQuestionSkipEmpty ==
    /\ pc = "loop" /\ i <= Len(lines)
    /\ strip(lines[i]) # <<>>
    /\ QUESTION_RE(strip(lines[i])) # None
    /\ LET m_q == QUESTION_RE(strip(lines[i]))[1]
       IN  /\ questions' = IF current # None /\ current[1].choices # <<>>
                           THEN Append(questions, current[1])
                           ELSE questions
           /\ current' = Some([ id |-> Stem(path) \o <<"_">> \o m_q.g1,
                                source_file |-> path,
                                question |-> strip(m_q.g2),
                                choices |-> <<>>,
                                correct_letter |-> None,
                                correct_index |-> None ])
    /\ last_type' = Some("question")
    /\ i' = i + 1
    /\ UNCHANGED <<path, lines, warnings, pc>>
    /\ UNCHANGED outer

\* NewQuestion without the assignment last_type = "question".
NewQuestionKeepsKind ==
    /\ pc = "loop" /\ i <= Len(lines)
    /\ strip(lines[i]) # <<>>
    /\ QUESTION_RE(strip(lines[i])) # None
    /\ LET m_q == QUESTION_RE(strip(lines[i]))[1]
       IN  /\ questions' = IF current # None
                           THEN Append(questions, current[1])
                           ELSE questions
           /\ current' = Some([ id |-> Stem(path) \o <<"_">> \o m_q.g1,
                                source_file |-> path,
                                question |-> strip(m_q.g2),
                                choices |-> <<>>,
                                correct_letter |-> None,
                                correct_index |-> None ])
    /\ i' = i + 1
    /\ UNCHANGED <<path, lines, last_type, warnings, pc>>
    /\ UNCHANGED outer

\* if m_q: finalize the previous question, open a new one.
NewQuestion ==
    /\ InLoop
    /\ stripped # <<>>
    /\ QUESTION_RE(stripped) # None
    /\ LET m_q == QUESTION_RE(stripped)[1]
       IN  /\ questions' = IF current # None
                           THEN Append(questions, current[1])
                           ELSE questions
           /\ current' = Some(NewRecord(m_q.g1, strip(m_q.g2)))
    /\ last_type' = Some("question")
    /\ i' = i + 1
    /\ UNCHANGED <<path, lines, warnings, pc>>
    /\ UNCHANGED outer

\* AddChoice that overwrites an earlier choice with the same letter.
AddChoiceDedup(q, star, letter, text_part) ==
    LET same == {c \in 1..Len(q.choices) : q.choices[c].letter = letter}
        choice_index == IF same = {} THEN Len(q.choices) ELSE Min(same) - 1
        put == IF same = {}
               THEN [q EXCEPT !.choices =
                        Append(@, [letter |-> letter, text |-> text_part])]
               ELSE [q EXCEPT !.choices[Min(same)].text = text_part]
    IN  IF star = <<"*">>
        THEN [put EXCEPT !.correct_letter = Some(letter),
                         !.correct_index = Some(choice_index)]
        ELSE put

\* AddChoice that keeps the first marking of a question.
AddChoiceFirstMarker(q, star, letter, text_part) ==
    LET choice_index == Len(q.choices)
        appended == [q EXCEPT !.choices =
                        Append(@, [letter |-> letter, text |-> text_part])]
    IN  IF star = <<"*">> /\ q.correct_index = None
        THEN [appended EXCEPT !.correct_letter = Some(letter),
                              !.correct_index = Some(choice_index)]
        ELSE appended

\* AddChoice that takes the index after the append.
AddChoiceOneBased(q, star, letter, text_part) ==
    LET appended == [q EXCEPT !.choices =
                        Append(@, [letter |-> letter, text |-> text_part])]
    IN  IF star = <<"*">>
        THEN [appended EXCEPT !.correct_letter = Some(letter),
                              !.correct_index = Some(Len(appended.choices))]
        ELSE appended

\* AddChoice that shows the letter when the choice has no text.
AddChoiceDefaultText(q, star, letter, text_part) ==
    LET choice_index == Len(q.choices)
        shown == IF text_part = <<>> THEN <<letter>> ELSE text_part
        appended == [q EXCEPT !.choices =
                        Append(@, [letter |-> letter, text |-> shown])]
    IN  IF star = <<"*">>
        THEN [appended EXCEPT !.correct_letter = Some(letter),
                              !.correct_index = Some(choice_index)]
        ELSE appended

\* current["choices"].append(...) and the marking of the correct choice.
AddChoice(q, star, letter, text_part) ==
    LET choice_index == Len(q.choices)
        appended == [q EXCEPT !.choices =
                        Append(@, [letter |-> letter, text |-> text_part])]
    IN  IF star = <<"*">>
        THEN [appended EXCEPT !.correct_letter = Some(letter),
                              !.correct_index = Some(choice_index)]
        ELSE appended

\* NewChoice without the test for an open question: an orphan choice line
\* opens a question of its own.
NewChoiceOrphanOpens ==
    /\ pc = "loop" /\ i <= Len(lines)
    /\ strip(lines[i]) # <<>>
    /\ QUESTION_RE(strip(lines[i])) = None
    /\ CHOICE_RE(strip(lines[i])) # None
    /\ LET m_c == CHOICE_RE(strip(lines[i]))[1]
           open == IF current # None
                   THEN current[1]
                   ELSE [ id |-> Stem(path), source_file |-> path,
                          question |-> <<>>, choices |-> <<>>,
                          correct_letter |-> None, correct_index |-> None ]
           choice_index == Len(open.choices)
           appended == [open EXCEPT !.choices =
                           Append(@, [letter |-> lower(m_c.g2),
                                      text |-> strip(m_c.g3)])]
       IN  current' = Some(IF m_c.g1 = <<"*">>
                           THEN [appended EXCEPT
                                    !.correct_letter = Some(lower(m_c.g2)),
                                    !.correct_index = Some(choice_index)]
                           ELSE appended)
    /\ last_type' = Some("choice")
    /\ i' = i + 1
    /\ UNCHANGED <<path, lines, questions, warnings, pc>>
    /\ UNCHANGED outer

\* if m_c and current is not None: add a choice to the open question.
NewChoice ==
    /\ InLoop
    /\ stripped # <<>>
    /\ QUESTION_RE(stripped) = None
    /\ CHOICE_RE(stripped) # None
    /\ current # None
    /\ LET m_c == CHOICE_RE(stripped)[1]
       IN  current' = Some(AddChoice(current[1], m_c.g1, lower(m_c.g2),
                                     strip(m_c.g3)))
    /\ last_type' = Some("choice")
    /\ i' = i + 1
    /\ UNCHANGED <<path, lines, questions, warnings, pc>>
    /\ UNCHANGED outer

\* Fold without the separating space.
FoldNoSpace(q, kind, s) ==
    IF kind = Some("question")
    THEN [q EXCEPT !.question = @ \o s]
    ELSE IF kind = Some("choice") /\ q.choices # <<>>
         THEN [q EXCEPT !.choices[Len(q.choices)].text = @ \o s]
         ELSE q

\* The continuation branch applied to the open question q.
Fold(q, kind, s) ==
    IF kind = Some("question")
    THEN [q EXCEPT !.question = @ \o <<" ">> \o s]
    ELSE IF kind = Some("choice") /\ q.choices # <<>>
         THEN [q EXCEPT !.choices[Len(q.choices)].text = @ \o <<" ">> \o s]
         ELSE q

\* ContinuationLine that, right after a header, extends the last choice of
\* the record emitted before instead of the new question.
ContinuationLineToPrevious ==
    /\ pc = "loop" /\ i <= Len(lines)
    /\ strip(lines[i]) # <<>>
    /\ QUESTION_RE(strip(lines[i])) = None
    /\ ~(CHOICE_RE(strip(lines[i])) # None /\ current # None)
    /\ IF /\ current # None
          /\ last_type = Some("question")
          /\ questions # <<>>
          /\ questions[Len(questions)].choices # <<>>
       THEN /\ questions' =
                  [questions EXCEPT
                      ![Len(questions)] =
                          Fold(@, Some("choice"), strip(lines[i]))]
            /\ current' = current
       ELSE /\ questions' = questions
            /\ current' = IF current # None
                          THEN Some(Fold(current[1], last_type, strip(lines[i])))
                          ELSE current
    /\ i' = i + 1
    /\ UNCHANGED <<path, lines, last_type, warnings, pc>>
    /\ UNCHANGED outer

\* Neither a question nor an attachable choice: a continuation line.
ContinuationLine ==
    /\ InLoop
    /\ stripped # <<>>
    /\ QUESTION_RE(stripped) = None
    /\ ~(CHOICE_RE(stripped) # None /\ current # None)
    /\ current' = IF current # None
                  THEN Some(Fold(current[1], last_type, stripped))
                  ELSE current
    /\ i' = i + 1
    /\ UNCHANGED <<path, lines, questions, last_type, warnings, pc>>
    /\ UNCHANGED outer

\* The end of the loop without the final append.
FinalizeLastForgotten ==
    /\ pc = "loop"
    /\ i > Len(lines)
    /\ pc' = "check"
    /\ UNCHANGED <<path, lines, i, questions, current, last_type, warnings>>
    /\ UNCHANGED outer

\* After the loop: if current is not None: questions.append(current)
FinalizeLast ==
    /\ pc = "loop"
    /\ i > Len(lines)
    /\ questions' = IF current # None
                    THEN Append(questions, current[1])
                    ELSE questions
    /\ pc' = "check"
    /\ UNCHANGED <<path, lines, i, current, last_type, warnings>>
    /\ UNCHANGED outer

\* Unmarked with the truthiness test "not q['correct_index']", which also
\* takes index 0 for a missing answer.
RECURSIVE UnmarkedFalsy(_)
UnmarkedFalsy(qs) ==
    IF qs = <<>> THEN <<>>
    ELSE (IF Head(qs).correct_index \in {None, Some(0)}
          THEN <<Head(qs).id>> ELSE <<>>)
         \o UnmarkedFalsy(Tail(qs))

\* The ids of the records of qs that have no marked answer, in order.
RECURSIVE Unmarked(_)
Unmarked(qs) ==
    IF qs = <<>> THEN <<>>
    ELSE (IF Head(qs).correct_index = None THEN <<Head(qs).id>> ELSE <<>>)
         \o Unmarked(Tail(qs))

\* The sanity check prints one warning per unmarked question, then returns.
SanityCheck ==
    /\ pc = "check"
    /\ warnings' = warnings \o Unmarked(questions)
    /\ pc' = "done"
    /\ UNCHANGED <<path, lines, i, questions, current, last_type>>
    /\ UNCHANGED outer

(* ------------------- load_questions_from_directory --------------------- *)

\* dir_path.glob("*.txt"): the names of the directory that end in ".txt".
glob(d) ==
    {n \in DOMAIN d : Len(n) >= 4 /\ SubSeq(n, Len(n) - 3, Len(n)) = <<".", "t", "x", "t">>}

\* The orders in which the file system may list a set of names.
Listings(S) ==
    {f \in [1..Cardinality(S) -> S] : \A n \in S : \E k \in DOMAIN f : f[k] = n}

\* The order of two paths: by code point, character by character.
RECURSIVE PathLess(_, _)
PathLess(a, b) ==
    IF a = <<>> THEN b # <<>>
    ELSE IF b = <<>> THEN FALSE
    ELSE IF Head(a) = Head(b) THEN PathLess(Tail(a), Tail(b))
    ELSE Ord(Head(a)) < Ord(Head(b))

\* The listing taken as it comes, without sorting.
Unsorted(ps) == ps

\* sorted(...)
RECURSIVE sorted(_)
sorted(ps) ==
    IF ps = <<>> THEN <<>>
    ELSE LET h == Head(ps)
             rest == sorted(Tail(ps))
         IN  SelectSeq(rest, LAMBDA x : PathLess(x, h)) \o <<h>>
                 \o SelectSeq(rest, LAMBDA x : ~PathLess(x, h))

\* if not dir_path.exists() or not dir_path.is_dir(): raise
InvalidDirectory ==
    /\ dpc = "start"
    /\ dir = None
    /\ dpc' = "aborted"
    /\ UNCHANGED <<path, lines, i, questions, current, last_type, warnings, pc>>
    /\ UNCHANGED <<dir, txt_files, fi, all_questions, json_file, cards>>

\* txt_files = sorted(dir_path.glob("*.txt")); return [] if there is none.
StartLoad ==
    /\ dpc = "start"
    /\ dir # None
    /\ \E listing \in Listings(glob(dir[1])) : txt_files' = sorted(listing)
    /\ all_questions' = <<>>
    /\ fi' = 1
    /\ dpc' = IF txt_files' = <<>> THEN "loaded" ELSE "files"
    /\ UNCHANGED <<path, lines, i, questions, current, last_type, warnings, pc>>
    /\ UNCHANGED <<dir, json_file, cards>>

\* OpenFile with the builder state kept from the file parsed before.
OpenFileKeepsBuilder ==
    /\ dpc = "files"
    /\ fi <= Len(txt_files)
    /\ read_text(dir[1][txt_files[fi]]) # None
    /\ path' = txt_files[fi]
    /\ lines' = LinesOf(read_text(dir[1][txt_files[fi]])[1])
    /\ i' = 1
    /\ questions' = <<>>
    /\ pc' = "loop"
    /\ dpc' = "parsing"
    /\ UNCHANGED <<current, last_type>>
    /\ UNCHANGED <<warnings, dir, txt_files, fi, all_questions, json_file, cards>>

\* for txt_file in txt_files: parse_question_file(txt_file) starts: the file
\* is decoded and split into lines, the builder state is fresh.
OpenFile ==
    /\ dpc = "files"
    /\ fi <= Len(txt_files)
    /\ read_text(dir[1][txt_files[fi]]) # None
    /\ path' = txt_files[fi]
    /\ lines' = LinesOf(read_text(dir[1][txt_files[fi]])[1])
    /\ i' = 1
    /\ questions' = <<>>
    /\ current' = None
    /\ last_type' = None
    /\ pc' = "loop"
    /\ dpc' = "parsing"
    /\ UNCHANGED <<warnings, dir, txt_files, fi, all_questions, json_file, cards>>

\* DecodeError that skips the undecodable file and goes on with the next.
DecodeErrorSkipsFile ==
    /\ dpc = "files"
    /\ fi <= Len(txt_files)
    /\ read_text(dir[1][txt_files[fi]]) = None
    /\ path' = txt_files[fi]
    /\ fi' = fi + 1
    /\ UNCHANGED <<lines, i, questions, current, last_type, warnings, pc>>
    /\ UNCHANGED <<dir, txt_files, all_questions, json_file, cards, dpc>>

\* Both decodings fail: the UnicodeDecodeError leaves parse_question_file,
\* load_questions_from_directory and main, none of which catches it.
DecodeError ==
    /\ dpc = "files"
    /\ fi <= Len(txt_files)
    /\ read_text(dir[1][txt_files[fi]]) = None
    /\ path' = txt_files[fi]
    /\ dpc' = "aborted"
    /\ UNCHANGED <<lines, i, questions, current, last_type, warnings, pc>>
    /\ UNCHANGED <<dir, txt_files, fi, all_questions, json_file, cards>>

\* parse_question_file returned: all_questions.extend(file_questions)
ExtendCorpus ==
    /\ dpc = "parsing"
    /\ pc = "done"
    /\ all_questions' = all_questions \o questions
    /\ fi' = fi + 1
    /\ dpc' = "files"
    /\ UNCHANGED <<path, lines, i, questions, current, last_type, warnings, pc>>
    /\ UNCHANGED <<dir, txt_files, json_file, cards>>

\* The loop over the files is over: return all_questions
ReturnCorpus ==
    /\ dpc = "files"
    /\ fi > Len(txt_files)
    /\ dpc' = "loaded"
    /\ UNCHANGED <<path, lines, i, questions, current, last_type, warnings, pc>>
    /\ UNCHANGED <<dir, txt_files, fi, all_questions, json_file, cards>>

(* ------------------------ JSON and the cards --------------------------- *)

\* JSON values: null, a number, a string.
JNull == <<"null">>

JNum(n) == <<"number", n>>

JStr(s) == <<"string", s>>

\* json.dump of one question dict and of the list of them.
DumpRecord(q) ==
    [ id             |-> JStr(q.id),
      source_file    |-> JStr(q.source_file),
      question       |-> JStr(q.question),
      choices        |-> [c \in 1..Len(q.choices) |->
                            [ letter |-> JStr(q.choices[c].letter),
                              text   |-> JStr(q.choices[c].text) ]],
      correct_letter |-> IF q.correct_letter = None THEN JNull
                         ELSE JStr(q.correct_letter[1]),
      correct_index  |-> IF q.correct_index = None THEN JNull
                         ELSE JNum(q.correct_index[1]) ]

json_dump(qs) == [k \in 1..Len(qs) |-> DumpRecord(qs[k])]

\* json.load: null becomes None, a number or a string its Python value.
FromJson(j) == IF j = JNull THEN None ELSE Some(j[2])

LoadRecord(j) ==
    [ id             |-> FromJson(j.id),
      source_file    |-> FromJson(j.source_file),
      question       |-> FromJson(j.question),
      choices        |-> [c \in 1..Len(j.choices) |->
                            [ letter |-> FromJson(j.choices[c].letter),
                              text   |-> FromJson(j.choices[c].text) ]],
      correct_letter |-> FromJson(j.correct_letter),
      correct_index  |-> FromJson(j.correct_index) ]

json_load(doc) == [k \in 1..Len(doc) |-> LoadRecord(doc[k])]

\* main: if not questions: return; else save_questions_to_json(...)
SaveJson ==
    /\ dpc = "loaded"
    /\ IF all_questions = <<>>
       THEN json_file' = json_file /\ dpc' = "exit"
       ELSE json_file' = Some(json_dump(all_questions)) /\ dpc' = "saved"
    /\ UNCHANGED <<path, lines, i, questions, current, last_type, warnings, pc>>
    /\ UNCHANGED <<dir, txt_files, fi, all_questions, cards>>

\* (x or "") of an optional text, and of an optional letter.
OrEmptyText(x) == IF x = None THEN <<>> ELSE x[1]

OrEmptyLetter(x) == IF x = None THEN "" ELSE x[1]

\* norm_choices that keeps the choices without text.
RECURSIVE norm_choices_keep(_)
norm_choices_keep(choices) ==
    IF choices = <<>> THEN <<>>
    ELSE <<[letter |-> lower(OrEmptyLetter(Head(choices).letter)),
            text   |-> strip(OrEmptyText(Head(choices).text))]>>
             \o norm_choices_keep(Tail(choices))

\* The normalised choices: letter lowered, text stripped, a choice without
\* letter or without text left out.
RECURSIVE norm_choices(_)
norm_choices(choices) ==
    IF choices = <<>> THEN <<>>
    ELSE LET ch == Head(choices)
             letter == lower(OrEmptyLetter(ch.letter))
             text == strip(OrEmptyText(ch.text))
         IN  (IF letter = "" \/ text = <<>>
              THEN <<>>
              ELSE <<[letter |-> letter, text |-> text]>>)
                 \o norm_choices(Tail(choices))

\* letter_to_index in which the first choice with a letter keeps its entry.
RECURSIVE letter_to_index_first(_)
letter_to_index_first(cs) ==
    IF cs = <<>> THEN <<>>
    ELSE letter_to_index_first(SubSeq(cs, 1, Len(cs) - 1))
             @@ (cs[Len(cs)].letter :> (Len(cs) - 1))

\* letter_to_index = {c["letter"]: i for i, c in enumerate(norm_choices)}:
\* a later choice with the same letter replaces the earlier entry.
RECURSIVE letter_to_index(_)
letter_to_index(cs) ==
    IF cs = <<>> THEN <<>>
    ELSE (cs[Len(cs)].letter :> (Len(cs) - 1))
             @@ letter_to_index(SubSeq(cs, 1, Len(cs) - 1))

\* The card made from one raw record, None when the record is skipped.
CardOf(raw) ==
    LET question == strip(OrEmptyText(raw.question))
        correct_letter ==
            IF lower(OrEmptyLetter(raw.correct_letter)) = "" THEN None
            ELSE Some(lower(OrEmptyLetter(raw.correct_letter)))
        norm == norm_choices(raw.choices)
        index == letter_to_index(norm)
    IN  IF question = <<>> \/ raw.choices = <<>> THEN None
        ELSE IF norm = <<>> THEN None
        ELSE Some([ id             |-> raw.id,
                    source_file    |-> raw.source_file,
                    question       |-> question,
                    choices        |-> norm,
                    correct_letter |-> correct_letter,
                    correct_index  |->
                        IF correct_letter # None
                              /\ correct_letter[1] \in DOMAIN index
                        THEN Some(index[correct_letter[1]])
                        ELSE None ])

\* The cards of the records of data, in order.
RECURSIVE CardsOf(_)
CardsOf(data) ==
    IF data = <<>> THEN <<>>
    ELSE CardOf(Head(data)) \o CardsOf(Tail(data))

\* run_flashcards, the answer revealed for a card: the correct letter and
\* the text of choices[correct_index], None when correct_index is None.
Revealed(card) ==
    [ letter |-> card.correct_letter,
      text   |-> IF card.correct_index # None
                 THEN Some(card.choices[card.correct_index[1] + 1].text)
                 ELSE None ]

\* load_cards_from_json: read the document, build the cards, raise
\* ValueError when no card is valid.
LoadCards ==
    /\ dpc = "saved"
    /\ cards' = CardsOf(json_load(json_file[1]))
    /\ dpc' = IF cards' = <<>> THEN "novalid" ELSE "cards"
    /\ UNCHANGED <<path, lines, i, questions, current, last_type, warnings, pc>>
    /\ UNCHANGED <<dir, txt_files, fi, all_questions, json_file>>

Next ==
    \/ SkipBlank
    \/ NewQuestion
    \/ NewChoice
    \/ ContinuationLine
    \/ FinalizeLast
    \/ SanityCheck
    \/ ExtendCorpus
    \/ ReturnCorpus
    \/ SaveJson
    \/ LoadCards

Spec == Init /\ [][Next]_vars

(* ------------------------- a whole directory --------------------------- *)

\* The names a directory may hold: two text files and another file.
DirNames ==
    { <<"b", ".", "t", "x", "t">>,
      <<"a", ".", "t", "x", "t">>,
      <<"a", ".", "m", "d">> }

\* The contents a file may have, as bytes.
DirContents ==
    { \* "1. Q\n\n*a. x\n", ASCII
      <<49, 46, 32, 81, 10, 10, 42, 97, 46, 32, 120, 10>>,
      \* "a. x\n1.\xE9": not UTF-8, cp1252 gives "1.é"; starts with a choice
      <<97, 46, 32, 120, 10, 49, 46, 233>>,
      \* "1. Q\n\x81": neither UTF-8 nor cp1252
      <<49, 46, 32, 81, 10, 129>>,
      \* "x\r\n2.\xC3\xA9\n": UTF-8 for "2.é"; starts with a continuation
      <<120, 13, 10, 50, 46, 195, 169, 10>> }

Directories ==
    UNION {[S -> DirContents] :
              S \in {T \in SUBSET DirNames : Cardinality(T) <= MaxFiles}}

\* main is about to call load_questions_from_directory on a path that is
\* not a directory (None) or on a directory.
InitDir ==
    /\ dir \in {None} \cup {Some(d) : d \in Directories}
    /\ path = <<>>
    /\ lines = <<>>
    /\ i = 1
    /\ questions = <<>>
    /\ current = None
    /\ last_type = None
    /\ warnings = <<>>
    /\ pc = "idle"
    /\ txt_files = <<>>
    /\ fi = 1
    /\ all_questions = <<>>
    /\ json_file = None
    /\ cards = <<>>
    /\ dpc = "start"

NextDir ==
    \/ InvalidDirectory
    \/ StartLoad
    \/ OpenFile
    \/ DecodeError
    \/ SkipBlank
    \/ NewQuestion
    \/ NewChoice
    \/ ContinuationLine
    \/ FinalizeLast
    \/ SanityCheck
    \/ ExtendCorpus
    \/ ReturnCorpus
    \/ SaveJson
    \/ LoadCards

SpecDir == InitDir /\ [][NextDir]_vars

(* ------------------- the input, read as a document --------------------- *)

\* The trimmed text and the pattern matches of every line, tabulated.
Trimmed == [l \in Lines |-> strip(l)]

HeaderMatch == [l \in Lines |-> QUESTION_RE(strip(l))]

ChoiceMatch == [l \in Lines |-> CHOICE_RE(strip(l))]

\* The kind of line j of the file, by the patterns of the file format.
IsBlankLine(j) == Trimmed[lines[j]] = <<>>

IsHeaderLine(j) == ~IsBlankLine(j) /\ HeaderMatch[lines[j]] # None

IsChoiceLine(j) ==
    /\ ~IsBlankLine(j)
    /\ HeaderMatch[lines[j]] = None
    /\ ChoiceMatch[lines[j]] # None

IsContLine(j) ==
    /\ ~IsBlankLine(j)
    /\ HeaderMatch[lines[j]] = None
    /\ ChoiceMatch[lines[j]] = None

IsMarkedLine(j) == IsChoiceLine(j) /\ ChoiceMatch[lines[j]][1].g1 = <<"*">>

\* The n-th smallest element of a set of positions.
Nth(S, n) == CHOOSE j \in S : Cardinality({h \in S : h <= j}) = n

\* The elements of a set of positions in ascending order.
Ascending(S) == [n \in 1..Cardinality(S) |-> Nth(S, n)]

HeaderPos == {j \in 1..Len(lines) : IsHeaderLine(j)}

NumHeaders == Cardinality(HeaderPos)

\* The number of lines consumed so far, and the headers among them.
Seen == i - 1

HeadersSeen == Cardinality({j \in HeaderPos : j <= Seen})

\* Block k: the lines after the k-th header and before the next header (or
\* the end of the input); BlockSeen is the part of it consumed so far.
HeaderAt(k) == Nth(HeaderPos, k)

BlockEnd(k) == IF k < NumHeaders THEN HeaderAt(k + 1) - 1 ELSE Len(lines)

BlockSeen(k) == {j \in (HeaderAt(k) + 1)..BlockEnd(k) : j <= Seen}

ChoicePos(k) == {j \in BlockSeen(k) : IsChoiceLine(j)}

MarkedPos(k) == {j \in ChoicePos(k) : IsMarkedLine(j)}

\* The continuation lines of block k that extend the field opened at line p
\* (the header or a choice line): those after p with no choice line between.
ContOf(k, p) ==
    {j \in BlockSeen(k) : /\ j > p
                          /\ IsContLine(j)
                          /\ \A h \in (p + 1)..j : ~IsChoiceLine(h)}

\* base followed by " " + the trimmed line, for each line of S in order.
RECURSIVE Joined(_, _)
Joined(base, S) ==
    IF S = {} THEN base
    ELSE Joined(base, S \ {Max(S)}) \o <<" ">> \o Trimmed[lines[Max(S)]]

\* The Choice that the choice line p of block k stands for.
ChoiceOf(k, p) ==
    LET m == ChoiceMatch[lines[p]][1]
    IN  [letter |-> lower(m.g2), text |-> Joined(m.g3, ContOf(k, p))]

\* The records built so far: the emitted ones, then the open one.
Built ==
    IF pc = "loop" /\ current # None
    THEN Append(questions, current[1])
    ELSE questions

(* ------------------------------ claims --------------------------------- *)

\* C1: every emitted record's choices list is exactly the choice lines of its
\* block (after its header, before the next header or the end of input), one
\* Choice per line, in order of appearance, with the letter lowercased and
\* the line's remainder text (extended by the continuation lines folded
\* into it); no choice line is dropped, merged, deduplicated or reordered.
C1_ChoicesAreBlockChoiceLines ==
    \A k \in 1..Len(questions) :
        LET ps == Ascending(ChoicePos(k))
        IN  questions[k].choices = [n \in 1..Len(ps) |-> ChoiceOf(k, ps[n])]

\* A record with a duplicate letter and three choices has been emitted.
C1_Witness ==
    \E k \in 1..Len(questions) :
        /\ Len(questions[k].choices) >= 3
        /\ questions[k].choices[1].letter = questions[k].choices[3].letter

\* C2: the marking of a record is that of the LAST marked choice line of its
\* block; unmarked choice lines never change it (a block without a marked
\* line has no marking).
C2_LastMarkerWins ==
    \A k \in 1..Len(Built) :
        IF MarkedPos(k) = {}
        THEN Built[k].correct_letter = None /\ Built[k].correct_index = None
        ELSE LET p == Max(MarkedPos(k))
             IN  /\ Built[k].correct_letter =
                        Some(lower(ChoiceMatch[lines[p]][1].g2))
                 /\ Built[k].correct_index =
                        Some(Cardinality({j \in ChoicePos(k) : j < p}))

\* An emitted record whose block has two marked lines with different
\* letters, followed by an unmarked choice line.
C2_Witness ==
    \E k \in 1..Len(questions) :
        /\ Cardinality(MarkedPos(k)) >= 2
        /\ \E p \in MarkedPos(k), r \in MarkedPos(k) :
              ChoiceOf(k, p).letter # ChoiceOf(k, r).letter
        /\ \E p \in ChoicePos(k) : p > Max(MarkedPos(k))

\* The id and the question text that the k-th header and its continuation
\* lines stand for.
IdOf(k) == Stem(path) \o <<"_">> \o HeaderMatch[lines[HeaderAt(k)]][1].g1

QuestionOf(k) ==
    Joined(HeaderMatch[lines[HeaderAt(k)]][1].g2, ContOf(k, HeaderAt(k)))

\* C3: a continuation line processed while a record is open is appended,
\* after exactly one space, to the question when last_type is "question" and
\* to the text of the last choice when last_type is "choice"; last_type, the
\* number of choices, every other choice, the letters, correct_letter and
\* correct_index are unchanged.
C3_Step ==
    (InLoop /\ IsContLine(i) /\ current # None) =>
        LET q == current[1]
            s == Trimmed[lines[i]]
            n == Len(q.choices)
        IN  /\ current' # None
            /\ last_type' = last_type
            /\ current'[1].correct_letter = q.correct_letter
            /\ current'[1].correct_index = q.correct_index
            /\ Len(current'[1].choices) = n
            /\ last_type = Some("question") =>
                  /\ current'[1].question = q.question \o <<" ">> \o s
                  /\ current'[1].choices = q.choices
            /\ last_type = Some("choice") =>
                  /\ n >= 1
                  /\ current'[1].question = q.question
                  /\ current'[1].choices[n].text =
                         q.choices[n].text \o <<" ">> \o s
                  /\ current'[1].choices[n].letter = q.choices[n].letter
                  /\ \A c \in 1..(n - 1) :
                         current'[1].choices[c] = q.choices[c]

C3_ContinuationFolds == [][C3_Step]_vars

\* A continuation line has been folded into the second of two choices of a
\* record and into that choice only.
C3_Witness ==
    \E k \in 1..Len(Built) :
        /\ Cardinality(ChoicePos(k)) >= 2
        /\ ContOf(k, Max(ChoicePos(k))) # {}
        /\ Len(Built[k].choices[2].text) > Len(Built[k].choices[1].text)

\* C4: every header line opens a record that is emitted exactly once, when
\* the next header is processed or at the end of input: while lines are
\* consumed all headers seen but the last have been emitted, after the whole
\* input the number of records equals the number of header lines, and the
\* records are in the order of their headers.
C4_OneRecordPerHeader ==
    /\ Len(questions) = IF pc = "loop"
                        THEN (IF HeadersSeen = 0 THEN 0 ELSE HeadersSeen - 1)
                        ELSE NumHeaders
    /\ \A k \in 1..Len(questions) :
          /\ questions[k].id = IdOf(k)
          /\ questions[k].question = QuestionOf(k)

\* The whole input is consumed, it had three headers, and it ended right
\* after a header: the last record has no choices.
C4_Witness ==
    /\ pc = "done"
    /\ NumHeaders = 3
    /\ Len(lines) = HeaderAt(3)
    /\ questions[3].choices = <<>>

\* C5: a choice or continuation line processed before the first header is
\* dropped: no record is emitted, current stays absent and last_type None,
\* and the first header then opens its record exactly as at the start.
C5_OrphanLinesDropped ==
    /\ HeadersSeen = 0 =>
          /\ questions = <<>>
          /\ warnings = <<>>
          /\ pc = "loop" => current = None /\ last_type = None
    /\ (pc = "loop" /\ HeadersSeen = 1 /\ Seen = HeaderAt(1)) =>
          /\ questions = <<>>
          /\ last_type = Some("question")
          /\ current = Some(NewRecord(HeaderMatch[lines[Seen]][1].g1,
                                      HeaderMatch[lines[Seen]][1].g2))

\* A marked choice line and a continuation line came first, then a header.
C5_Witness ==
    /\ pc = "loop"
    /\ Seen = 3
    /\ IsMarkedLine(1)
    /\ IsContLine(2)
    /\ IsHeaderLine(3)

\* The records (by position) whose block has no marked choice line.
UnmarkedBlocks == Ascending({k \in 1..NumHeaders : MarkedPos(k) = {}})

\* C6: after a file is parsed exactly one warning has been issued for each
\* emitted record whose block had no marked choice line, naming its id, in
\* the order of the records, and none for a record with a marked choice;
\* the warnings leave the returned records as they were.
C6_State ==
    /\ pc # "done" => warnings = <<>>
    /\ pc = "done" =>
          LET ub == UnmarkedBlocks
          IN  /\ warnings = [n \in 1..Len(ub) |-> IdOf(ub[n])]
              /\ Len(questions) = NumHeaders
              /\ \A n \in 1..Len(ub) :
                    /\ questions[ub[n]].id = warnings[n]
                    /\ questions[ub[n]].correct_index = None

C6_Step == pc = "check" => questions' = questions

C6_OneWarningPerUnmarked == []C6_State /\ [][C6_Step]_vars

\* Parsing is over; of three records the first and the last were unmarked
\* (two warnings) and the second was marked.
C6_Witness ==
    /\ pc = "done"
    /\ Len(questions) = 3
    /\ Len(warnings) = 2
    /\ questions[2].correct_index # None

\* C7: in every builder state and in every emitted record correct_letter and
\* correct_index are both absent or both present, and when present
\* 0 <= correct_index < len(choices) and choices[correct_index].letter is
\* correct_letter.
C7_MarkingConsistent ==
    \A k \in 1..Len(Built) :
        LET q == Built[k]
        IN  /\ (q.correct_letter = None) <=> (q.correct_index = None)
            /\ q.correct_index # None =>
                  /\ 0 <= q.correct_index[1]
                  /\ q.correct_index[1] < Len(q.choices)
                  /\ q.choices[q.correct_index[1] + 1].letter
                         = q.correct_letter[1]

\* A record with the same letter twice, marked on its second choice and
\* extended by a continuation line afterwards.
C7_Witness ==
    \E k \in 1..Len(Built) :
        /\ Len(Built[k].choices) = 2
        /\ Built[k].choices[1].letter = Built[k].choices[2].letter
        /\ Built[k].correct_index = Some(1)
        /\ ContOf(k, Max(ChoicePos(k))) # {}

\* C8 as stated: every emitted record has at least one choice.
C8_Original == \A k \in 1..Len(questions) : questions[k].choices # <<>>

\* C8 (amended): an emitted record's choices list is empty exactly when its
\* block contains no choice line; a record whose block has a choice line has
\* at least one choice.
C8_EmptyIffNoChoiceLine ==
    \A k \in 1..Len(questions) :
        (questions[k].choices = <<>>) <=> (ChoicePos(k) = {})

\* A record without choices was emitted before a record with choices.
C8_Witness ==
    /\ Len(questions) >= 2
    /\ questions[1].choices = <<>>
    /\ questions[2].choices # <<>>

\* The number text of the k-th header.
NumberOf(k) == HeaderMatch[lines[HeaderAt(k)]][1].g1

\* C9 as stated: no two records of a file have the same id.
C9_Original ==
    \A j \in 1..Len(questions), k \in 1..Len(questions) :
        j # k => questions[j].id # questions[k].id

\* C9 (amended): two records of a file have the same id exactly when their
\* headers carry the same number text; records with different header number
\* texts have different ids.
C9_SameIdIffSameNumber ==
    \A j \in 1..Len(questions), k \in 1..Len(questions) :
        j # k =>
            ((questions[j].id = questions[k].id) <=> (NumberOf(j) = NumberOf(k)))

\* Three records, two from headers with the same number and one from a
\* header with another number.
C9_Witness ==
    /\ Len(questions) = 3
    /\ NumberOf(1) = NumberOf(3)
    /\ NumberOf(1) # NumberOf(2)

\* C10 as stated: in every emitted record the question and every choice text
\* are non-empty.
C10_Original ==
    \A k \in 1..Len(questions) :
        /\ questions[k].question # <<>>
        /\ \A c \in 1..Len(questions[k].choices) :
              questions[k].choices[c].text # <<>>

\* C10 (amended): in every emitted record the question is empty exactly when
\* the header's remainder is empty and no continuation line was folded into
\* the question; a choice's text is empty exactly when the remainder of its
\* line is empty and no continuation line was folded into it.
C10_EmptyIffNothingGiven ==
    \A k \in 1..Len(questions) :
        LET ps == Ascending(ChoicePos(k))
        IN  /\ (questions[k].question = <<>>) <=>
                  /\ HeaderMatch[lines[HeaderAt(k)]][1].g2 = <<>>
                  /\ ContOf(k, HeaderAt(k)) = {}
            /\ Len(questions[k].choices) = Len(ps)
            /\ \A c \in 1..Len(ps) :
                  (questions[k].choices[c].text = <<>>) <=>
                      /\ ChoiceMatch[lines[ps[c]]][1].g3 = <<>>
                      /\ ContOf(k, ps[c]) = {}

\* An emitted record whose header had no text but took a continuation line,
\* with one choice left without text and one choice with text.
C10_Witness ==
    \E k \in 1..Len(questions) :
        /\ HeaderMatch[lines[HeaderAt(k)]][1].g2 = <<>>
        /\ questions[k].question # <<>>
        /\ Len(questions[k].choices) = 2
        /\ questions[k].choices[1].text = <<>>
        /\ questions[k].choices[2].text # <<>>

(* ----------------------- the loop as a function ------------------------ *)

\* The body of the loop for one line that is not blank, as a function of
\* the builder state st = [questions, current, last_type].
StepLine(st, line) ==
    LET s == strip(line)
    IN  IF QUESTION_RE(s) # None
        THEN [ questions |-> IF st.current # None
                             THEN Append(st.questions, st.current[1])
                             ELSE st.questions,
               current   |-> Some(NewRecord(QUESTION_RE(s)[1].g1,
                                            strip(QUESTION_RE(s)[1].g2))),
               last_type |-> Some("question") ]
        ELSE IF CHOICE_RE(s) # None /\ st.current # None
        THEN [ questions |-> st.questions,
               current   |-> Some(AddChoice(st.current[1], CHOICE_RE(s)[1].g1,
                                            lower(CHOICE_RE(s)[1].g2),
                                            strip(CHOICE_RE(s)[1].g3))),
               last_type |-> Some("choice") ]
        ELSE IF st.current # None
        THEN [st EXCEPT !.current = Some(Fold(st.current[1], st.last_type, s))]
        ELSE st

\* The loop over the lines ls, none of them blank, from the state st.
RECURSIVE RunLines(_, _)
RunLines(st, ls) ==
    IF ls = <<>> THEN st ELSE RunLines(StepLine(st, Head(ls)), Tail(ls))

\* The records returned for a file made of the lines ls, none blank.
ParseNonBlank(ls) ==
    LET st == RunLines([questions |-> <<>>, current |-> None,
                        last_type |-> None], ls)
    IN  IF st.current # None
        THEN Append(st.questions, st.current[1])
        ELSE st.questions

\* The lines of the file with the blank ones taken out.
NonBlankLines == SelectSeq(lines, LAMBDA l : strip(l) # <<>>)

\* C11: a blank line has no semantic effect: processing it leaves current,
\* last_type, the emitted records and the warnings unchanged, and the
\* records and warnings of a file are those of the same file with its blank
\* lines removed (so blank lines may be inserted or removed anywhere).
C11_Step ==
    (InLoop /\ IsBlankLine(i)) =>
        /\ current' = current
        /\ last_type' = last_type
        /\ questions' = questions
        /\ warnings' = warnings

C11_State ==
    pc = "done" =>
        LET parsed == ParseNonBlank(NonBlankLines)
        IN  /\ questions = parsed
            /\ warnings = Unmarked(parsed)

C11_BlankLinesNoEffect == []C11_State /\ [][C11_Step]_vars

\* A file was parsed that has a blank line between a choice line and its
\* continuation line.
C11_Witness ==
    /\ pc = "done"
    /\ \E j \in 2..(Len(lines) - 1) :
          IsChoiceLine(j - 1) /\ IsBlankLine(j) /\ IsContLine(j + 1)

\* The bytes of the file being parsed.
BytesOfPath == dir[1][path]

\* C12: a file is decoded as UTF-8 and, only if that fails, as cp1252, and
\* is then parsed from the fallback text; when both decodings fail the run
\* is aborted: nothing is returned or saved, not even the records of the
\* files parsed before, and no later file is parsed.
C12_State ==
    /\ (dpc = "parsing" /\ utf_8(BytesOfPath) # None) =>
          lines = LinesOf(utf_8(BytesOfPath)[1])
    /\ (dpc = "parsing" /\ utf_8(BytesOfPath) = None) =>
          /\ cp1252(BytesOfPath) # None
          /\ lines = LinesOf(cp1252(BytesOfPath)[1])
          /\ pc = "done" => questions = ParseNonBlank(NonBlankLines)
    /\ (dpc = "aborted" /\ dir # None) =>
          /\ path = txt_files[fi]
          /\ utf_8(BytesOfPath) = None
          /\ cp1252(BytesOfPath) = None
          /\ json_file = None
          /\ cards = <<>>

C12_Step ==
    /\ dpc = "aborted" => UNCHANGED vars
    /\ (/\ dpc = "files"
        /\ fi <= Len(txt_files)
        /\ utf_8(dir[1][txt_files[fi]]) = None
        /\ cp1252(dir[1][txt_files[fi]]) = None) =>
          dpc' = "aborted" /\ all_questions' = all_questions /\ fi' = fi

C12_DecodeFallbackThenAbort == []C12_State /\ [][C12_Step]_vars

\* The first file was decoded by the fallback and gave a record, the second
\* file could not be decoded and the run was aborted.
C12_Witness ==
    /\ dpc = "aborted"
    /\ dir # None
    /\ fi = 2
    /\ utf_8(dir[1][txt_files[1]]) = None
    /\ all_questions # <<>>

\* The records of the file name of the directory: those of its decoded
\* lines, with the id and source_file that the name gives them.
RecordsOfFile(name) ==
    LET ls == LinesOf(read_text(dir[1][name])[1])
        rs == ParseNonBlank(SelectSeq(ls, LAMBDA l : strip(l) # <<>>))
    IN  [k \in 1..Len(rs) |->
            [rs[k] EXCEPT
                !.source_file = name,
                !.id = Stem(name) \o SubSeq(@, Len(Stem(path)) + 1, Len(@))]]

\* The .txt names of the directory in ascending order.
AscNames ==
    CHOOSE f \in Listings(glob(dir[1])) :
        \A j \in DOMAIN f, k \in DOMAIN f : j < k => PathLess(f[j], f[k])

\* The records of the first n files in ascending name order, concatenated.
RECURSIVE CorpusUpTo(_)
CorpusUpTo(n) ==
    IF n = 0 THEN <<>> ELSE CorpusUpTo(n - 1) \o RecordsOfFile(AscNames[n])

\* C13: the corpus returned by load_questions_from_directory is the
\* concatenation of the per-file record sequences in ascending file-name
\* order, each in its own order; it is a function of the directory alone,
\* and a directory without matching files gives the empty corpus, no error.
C13_CorpusIsSortedConcatenation ==
    dir # None =>
        /\ dpc \in {"files", "parsing"} =>
              /\ txt_files = AscNames
              /\ all_questions = CorpusUpTo(fi - 1)
        /\ dpc \in {"loaded", "saved", "exit", "cards", "novalid"} =>
              /\ txt_files = AscNames
              /\ all_questions = CorpusUpTo(Len(AscNames))
        /\ (glob(dir[1]) = {} /\ dpc # "start") =>
              dpc \in {"loaded", "exit"} /\ all_questions = <<>>

\* Two files were loaded and each gave records: those of a.txt come first.
C13_Witness ==
    /\ dpc = "loaded"
    /\ Len(txt_files) = 2
    /\ Len(all_questions) >= 2
    /\ all_questions[1].source_file = <<"a", ".", "t", "x", "t">>
    /\ all_questions[Len(all_questions)].source_file = <<"b", ".", "t", "x", "t">>

(* ------------------------- the cards, read back ------------------------ *)

\* The corpus has been saved and read back by load_cards_from_json.
CardsLoaded == dpc \in {"cards", "novalid"}

\* The positions of the choices of record q that have text once stripped,
\* and the positions of the records that have a question and such a choice.
TextChoices(q) == {c \in 1..Len(q.choices) : strip(q.choices[c].text) # <<>>}

KeptRecords ==
    {k \in 1..Len(all_questions) :
        /\ strip(all_questions[k].question) # <<>>
        /\ TextChoices(all_questions[k]) # {}}

\* C14 as stated: the cards read back are the records of the corpus, field
\* for field, in number and order.
C14_Original ==
    CardsLoaded =>
        /\ Len(cards) = Len(all_questions)
        /\ \A k \in 1..Len(cards) :
              /\ cards[k].id = Some(all_questions[k].id)
              /\ cards[k].source_file = Some(all_questions[k].source_file)
              /\ cards[k].question = all_questions[k].question
              /\ cards[k].choices = all_questions[k].choices
              /\ cards[k].correct_letter = all_questions[k].correct_letter
              /\ cards[k].correct_index = all_questions[k].correct_index

\* C14 (amended): the JSON document read back holds the records of the
\* corpus field for field, absent fields absent; load_cards_from_json then
\* keeps, in order, the records with a non-empty stripped question and at
\* least one choice with non-empty stripped text, with the id, source_file
\* and correct_letter of the record, the question stripped, the choices that
\* have text (stripped) in order, and correct_index the position of the last
\* kept choice with the correct letter, absent if there is none; no card at
\* all is a ValueError.
C14_RoundTripNormalises ==
    /\ json_file # None =>
          LET data == json_load(json_file[1])
          IN  /\ Len(data) = Len(all_questions)
              /\ \A k \in 1..Len(data) :
                    LET q == all_questions[k]
                    IN  /\ data[k].id = Some(q.id)
                        /\ data[k].source_file = Some(q.source_file)
                        /\ data[k].question = Some(q.question)
                        /\ Len(data[k].choices) = Len(q.choices)
                        /\ \A c \in 1..Len(q.choices) :
                              /\ data[k].choices[c].letter = Some(q.choices[c].letter)
                              /\ data[k].choices[c].text = Some(q.choices[c].text)
                        /\ data[k].correct_letter = q.correct_letter
                        /\ data[k].correct_index = q.correct_index
    /\ CardsLoaded =>
          LET kept == Ascending(KeptRecords)
          IN  /\ Len(cards) = Len(kept)
              /\ (dpc = "novalid") <=> (KeptRecords = {})
              /\ \A n \in 1..Len(kept) :
                    LET q == all_questions[kept[n]]
                        ps == Ascending(TextChoices(q))
                        hits == {m \in 1..Len(ps) :
                                    /\ q.correct_letter # None
                                    /\ q.choices[ps[m]].letter = q.correct_letter[1]}
                    IN  /\ cards[n].id = Some(q.id)
                        /\ cards[n].source_file = Some(q.source_file)
                        /\ cards[n].question = strip(q.question)
                        /\ cards[n].choices =
                              [m \in 1..Len(ps) |->
                                  [ letter |-> q.choices[ps[m]].letter,
                                    text   |-> strip(q.choices[ps[m]].text) ]]
                        /\ cards[n].correct_letter = q.correct_letter
                        /\ cards[n].correct_index =
                              IF hits = {} THEN None ELSE Some(Max(hits) - 1)

\* The corpus had two records; the first was skipped, and the card of the
\* second has fewer choices than the record.
C14_Witness ==
    /\ dpc = "cards"
    /\ Len(all_questions) = 2
    /\ Len(cards) = 1
    /\ Len(cards[1].choices) < Len(all_questions[2].choices)

\* C15: a record is never revisited after finalization: every step leaves
\* the records already emitted (and those already in the corpus) as they
\* are, and a choice or continuation line, also one that follows a new
\* header, changes no emitted record.
C15_Step ==
    /\ Len(questions') >= Len(questions)
    /\ \A k \in 1..Len(questions) : questions'[k] = questions[k]
    /\ Len(all_questions') >= Len(all_questions)
    /\ \A k \in 1..Len(all_questions) : all_questions'[k] = all_questions[k]
    /\ (InLoop /\ ~IsHeaderLine(i)) => questions' = questions

C15_NoRecordRevisited == [][C15_Step]_vars

\* A record with a choice was emitted, the next header was processed and
\* then a continuation line.
C15_Witness ==
    /\ pc = "loop"
    /\ Seen = 4
    /\ IsHeaderLine(3)
    /\ IsContLine(4)
    /\ Len(questions) = 1
    /\ questions[1].choices # <<>>

\* C16: in every reachable state current is absent exactly when last_type
\* is None; while a record is open last_type is "question" or "choice", and
\* "choice" only with a non-empty choices list; so a continuation line seen
\* while a record is open is never dropped: it is folded into a field.
C16_State ==
    /\ (current = None) <=> (last_type = None)
    /\ current # None =>
          /\ last_type \in {Some("question"), Some("choice")}
          /\ last_type = Some("choice") => current[1].choices # <<>>

C16_Step ==
    (InLoop /\ IsContLine(i) /\ current # None) =>
        \/ current'[1].question # current[1].question
        \/ current'[1].choices # current[1].choices

C16_BuilderStateInvariant == []C16_State /\ [][C16_Step]_vars

\* A continuation line has just been folded while last_type was "choice",
\* in the second record of the file.
C16_Witness ==
    /\ pc = "loop"
    /\ Seen = 4
    /\ IsContLine(4)
    /\ last_type = Some("choice")
    /\ Len(questions) = 1

\* C17: the builder state is fresh for every file: a file starts with
\* current absent, last_type None and no record; its open record is
\* finalized within its own result; the records returned for it are those of
\* its own lines and name alone; and while a file is parsed (orphan lines at
\* its start included) the records of the files parsed before are untouched.
C17_State ==
    /\ (dpc = "parsing" /\ pc = "loop" /\ i = 1) =>
          /\ current = None
          /\ last_type = None
          /\ questions = <<>>
    /\ (dpc = "parsing" /\ pc = "done") =>
          /\ questions = RecordsOfFile(path)
          /\ current # None => questions[Len(questions)] = current[1]

C17_Step ==
    /\ dpc = "parsing" => all_questions' = all_questions \/ dpc' = "files"
    /\ \A k \in 1..Len(all_questions) :
          Len(all_questions') >= k /\ all_questions'[k] = all_questions[k]

C17_FreshBuilderPerFile == []C17_State /\ [][C17_Step]_vars

\* The first file gave a record with a choice; the second file starts with
\* a choice line, which has just been processed.
C17_Witness ==
    /\ dpc = "parsing"
    /\ fi = 2
    /\ pc = "loop"
    /\ i = 2
    /\ CHOICE_RE(strip(lines[1])) # None
    /\ all_questions # <<>>
    /\ all_questions[Len(all_questions)].choices # <<>>

\* The 0-based positions of the choices of a card that carry its correct
\* letter.
LetterHits(card) ==
    {m \in 0..(Len(card.choices) - 1) :
        /\ card.correct_letter # None
        /\ card.choices[m + 1].letter = card.correct_letter[1]}

\* C18: the letter-to-index map of load_cards_from_json is last-write-wins:
\* when several normalised choices of a card carry the correct letter, the
\* card's correct_index is the index of the LAST of them.
C18_LastLetterWins ==
    CardsLoaded =>
        \A n \in 1..Len(cards) :
            LetterHits(cards[n]) # {} =>
                cards[n].correct_index = Some(Max(LetterHits(cards[n])))

\* A card was loaded in which two choices carry the correct letter.
C18_Witness ==
    /\ dpc = "cards"
    /\ \E n \in 1..Len(cards) : Cardinality(LetterHits(cards[n])) >= 2

\* C19: in every card correct_index is present exactly when correct_letter
\* is, and then it is a valid index whose choice has the correct letter; so
\* run_flashcards never reveals a correct letter without a choice text.
C19_CardMarkingConsistent ==
    CardsLoaded =>
        \A n \in 1..Len(cards) :
            /\ (cards[n].correct_index # None) <=> (cards[n].correct_letter # None)
            /\ cards[n].correct_index # None =>
                  /\ cards[n].correct_index[1] \in 0..(Len(cards[n].choices) - 1)
                  /\ cards[n].choices[cards[n].correct_index[1] + 1].letter
                         = cards[n].correct_letter[1]
                  /\ Revealed(cards[n]).text # None
            /\ Revealed(cards[n]).letter # None => Revealed(cards[n]).text # None

\* C20: parser and quiz player agree on the correct answer: for a record
\* with correct_index = i, the card built from it designates as correct a
\* choice with the letter and (stripped) text of the record's i-th choice,
\* the one whose line was marked in the source.
C20_PlayerAgreesWithParser ==
    CardsLoaded =>
        LET kept == Ascending(KeptRecords)
        IN  \A n \in 1..Len(cards) :
                LET q == all_questions[kept[n]]
                IN  q.correct_index # None =>
                        /\ cards[n].correct_index # None
                        /\ cards[n].choices[cards[n].correct_index[1] + 1].letter
                               = q.choices[q.correct_index[1] + 1].letter
                        /\ cards[n].choices[cards[n].correct_index[1] + 1].text
                               = strip(q.choices[q.correct_index[1] + 1].text)

====
